---- MODULE Spec2Model ----
(***************************************************************************)
(* Live-timing and segment-mapping engine of dash_proxy.py (DashProvider). *)
(*                                                                         *)
(* One request is one behaviour: the resolved configuration and the clock  *)
(* sample arrive (Init), then parse_url runs as one step: sort_by_period   *)
(* rotates the catalog, and the branch chosen by the file extension        *)
(* builds the response.                                                    *)
(*                                                                         *)
(* Numbers are Python 2 integers: `/` and divmod are floor division, as    *)
(* \div and % are. now_float is compared only with integers, so the         *)
(* comparisons are those of int(now_float) = now.                           *)
(* An exception that leaves parse_url is the response type "exception".    *)
(***************************************************************************)
EXTENDS Integers, Sequences, FiniteSets, TLC

VARIABLES pc, now, resolved, cfg, response

vars == <<pc, now, resolved, cfg, response>>

\* ---------------------------------------------------------------- bounds
MaxAssets == 2
MaxSegsInLoop == 3
MaxNow == 26
MaxSegNr == 12
MaxReps == 3
MaxPhaseNow == 61
VideoTimescale == 2

\* ------------------------------------------------------ program constants
EXTRA_TIME_AFTER_END_IN_S == 60
SECS_IN_MINUTE == 60

\* ---------------------------------------------------------------- helpers
RECURSIVE SumWrap(_)
\* total += vod_info.wrap_seconds over cfg.vod_infos
SumWrap(infos) ==
    IF infos = << >> THEN 0
    ELSE Head(infos).wrap_seconds + SumWrap(Tail(infos))

\* prog after the iteration of index idx (1-based) of the enumerate loop
Prog(infos, idx) == SumWrap(SubSeq(infos, 1, idx))

Last(s) == s[Len(s)]

\* None is the empty sequence, a value v the sequence <<v>>
None == << >>

ErrorResponse(tag) ==
    [type |-> "error", ok |-> FALSE, pl |-> tag, periods |-> << >>, calls |-> << >>]

Raised(exc) ==
    [type |-> "exception", ok |-> FALSE, pl |-> exc, periods |-> << >>, calls |-> << >>]

NoResponse ==
    [type |-> "none", ok |-> FALSE, pl |-> "", periods |-> << >>, calls |-> << >>]

\* ---------------------------------------------------------- sort_by_period
\* The first loop of sort_by_period: the catalog after the forward step.
ForwardStep(c, time) ==
    IF \E idx \in 1..Len(c.vod_infos) :
          time > Prog(c.vod_infos, idx) + c.vod_infos[idx].seg_duration
    THEN [c EXCEPT !.vod_infos = Tail(@) \o <<Head(@)>>,
                   !.filenames = Tail(@) \o <<Head(@)>>,
                   !.start_from_ast = @ + Head(c.vod_infos).wrap_seconds]
    ELSE c

\* The second step: the last asset is put in front of the list, which keeps it.
BackwardStep(c, t) ==
    IF t - c.availability_start_time_in_s > c.vod_infos[1].wrap_seconds
    THEN [c EXCEPT !.vod_infos = <<Last(@)>> \o @,
                   !.filenames = <<Last(@)>> \o @,
                   !.start_from_ast = @ - Last(c.vod_infos).wrap_seconds]
    ELSE c

\* sort_by_period(cfg, now): [raised, cfg]. divmod by a total of 0 raises.
sort_by_period(c, t) ==
    LET total == SumWrap(c.vod_infos)
        diff == t - c.availability_start_time_in_s
    IN  IF total = 0 THEN [raised |-> TRUE, cfg |-> c]
        ELSE LET loops == diff \div total
                 time == diff % total
                 c2 == BackwardStep(ForwardStep(c, time), t)
             IN  [raised |-> FALSE,
                  cfg |-> [c2 EXCEPT !.start_from_ast = @ + loops * total]]

\* ------------------------------------------------------------ the manifest
RECURSIVE StartOf(_, _)
\* start of period i: start_from_ast plus timeinseconds of the periods before
StartOf(c, i) ==
    IF i = 1 THEN c.start_from_ast
    ELSE StartOf(c, i - 1)
         + (c.vod_infos[i - 1].total_duration \div c.vod_infos[i - 1].timescale)

generate_period_data(base_data) ==
    [i \in 1..Len(base_data) |->
        LET data == base_data[i]
            start == data.start
        IN  [start_s |-> start,
             periodDuration |-> data.duration,
             startNumber |-> data.startNumber + (start \div data.segDuration),
             duration |-> data.segDuration,
             presentationTimeOffset |-> start * data.timescale]]

generate_dynamic_mpd(c) ==
    LET base_data ==
          [i \in 1..Len(c.vod_infos) |->
              [timescale |-> c.vod_infos[i].timescale,
               start |-> StartOf(c, i),
               duration |-> c.vod_infos[i].total_duration \div c.vod_infos[i].timescale,
               segDuration |-> c.vod_infos[i].seg_duration,
               startNumber |-> c.start_nr]]
        \* iterations of the loop that raise: total_duration / timescale
        \* with a timescale of 0, then mpd_filenames[i] with no such name
        failing == {i \in 1..Len(c.vod_infos) :
                       c.vod_infos[i].timescale = 0 \/ i > Len(c.filenames)}
        first == CHOOSE i \in failing : \A j \in failing : i <= j
    IN  IF failing # {}
        THEN IF c.vod_infos[first].timescale = 0 THEN Raised("ZeroDivisionError")
             ELSE Raised("IndexError")
        \* start / seg_dur of generate_period_data
        ELSE IF \E i \in 1..Len(c.vod_infos) : c.vod_infos[i].seg_duration = 0
        THEN Raised("ZeroDivisionError")
        ELSE [type |-> "data", ok |-> TRUE, pl |-> "mpd",
              periods |-> generate_period_data(base_data), calls |-> << >>]

\* ------------------------------------------------------- init segments
process_init_segment(c) ==
    LET nr_reps == Len(c.reps)
    IN  IF nr_reps = 1
        THEN [type |-> "data", ok |-> TRUE, pl |-> "init", periods |-> << >>,
              calls |-> <<[rep |-> c.reps[1].id]>>]
        ELSE IF nr_reps = 2
        THEN [type |-> "data", ok |-> TRUE, pl |-> "muxed_init", periods |-> << >>,
              calls |-> <<[rep |-> c.reps[1].id], [rep |-> c.reps[2].id]>>]
        ELSE ErrorResponse("InvalidRepresentationCount")

\* ------------------------------------------------------ media segments
\* get_timescale: the timescale of the first rep whose id is cfg.repId, or None
get_timescale(c) ==
    LET hits == {i \in 1..Len(c.reps) : c.reps[i].id = c.repId}
    IN  IF hits = {} THEN None
        ELSE <<c.reps[CHOOSE i \in hits : \A j \in hits : i <= j].timescale>>

\* int(round(float(x) / seg_dur / timescale)) for x >= 0: halves round up
RoundDiv(x, d) == (2 * x + d) \div (2 * d)

\* seg_start_nr without the -1 default
seg_start_nr_raw(c) == c.start_nr

\* seg_start_nr = cfg.start_nr == -1 and 1 or cfg.start_nr  (0 is falsy: 0 or 0)
seg_start_nr(c) == IF c.start_nr = -1 THEN 1 ELSE c.start_nr

\* MapSegment with the loops left out of offset_at_loop_start
MapSegmentNoLoops(c, seg_nr) ==
    LET seg_dur == c.vod_infos[1].seg_duration
        diff == (seg_nr - seg_start_nr(c)) * seg_dur
        time == diff % c.loop_duration
        last == IF time >= c.initial_durations[1] THEN c.initial_durations[1] ELSE 0
        seg_nr_in_loop == (time - last) \div seg_dur
    IN  [seg_nr_in_loop |-> seg_nr_in_loop,
         offset_at_loop_start |-> last,
         vod_nr |-> seg_nr_in_loop + c.vod_infos[1].first_segment_in_loop,
         lmsg |-> \E k \in 1..Len(c.last_segment_numbers) : c.last_segment_numbers[k] = seg_nr]

\* The mapping of process_media_segment for seg_nr: the arithmetic between the
\* boundary checks and the dispatch.
MapSegment(c, seg_nr) ==
    LET seg_dur == c.vod_infos[1].seg_duration
        seg_time == (seg_nr - seg_start_nr(c)) * seg_dur + c.availability_start_time_in_s
        diff == seg_time - c.availability_start_time_in_s
        loops == diff \div c.loop_duration
        time == diff % c.loop_duration
        last == IF time >= c.initial_durations[1] THEN c.initial_durations[1] ELSE 0
        seg_nr_in_loop == (time - last) \div seg_dur
    IN  [seg_nr_in_loop |-> seg_nr_in_loop,
         offset_at_loop_start |-> loops * c.loop_duration + last,
         vod_nr |-> seg_nr_in_loop + c.vod_infos[1].first_segment_in_loop,
         lmsg |-> \E k \in 1..Len(c.last_segment_numbers) : c.last_segment_numbers[k] = seg_nr]

FilterCall(c, rep, m, seg_nr) ==
    [rep |-> rep.id, vod_nr |-> m.vod_nr, seg_nr |-> seg_nr,
     seg_duration |-> c.vod_infos[1].seg_duration,
     offset_at_loop_start |-> m.offset_at_loop_start, lmsg |-> m.lmsg,
     timescale |-> rep.timescale]

\* The dispatch of process_media_segment: one call for one rep, else reps 0 and 1
Dispatch(c, m, seg_nr) ==
    LET nr_reps == Len(c.reps)
    IN  IF nr_reps = 1
        THEN [type |-> "data", ok |-> TRUE, pl |-> "media", periods |-> << >>,
              calls |-> <<FilterCall(c, c.reps[1], m, seg_nr)>>]
        ELSE IF nr_reps < 2 THEN Raised("IndexError")
        ELSE [type |-> "data", ok |-> TRUE, pl |-> "muxed_media", periods |-> << >>,
              calls |-> <<FilterCall(c, c.reps[1], m, seg_nr),
                          FilterCall(c, c.reps[2], m, seg_nr)>>]

\* The last element of the terminal list is the one compared
VeryLastSegment(c) == Last(c.last_segment_numbers)

process_media_segment(c) ==
    LET seg_dur == c.vod_infos[1].seg_duration
        seg_name == c.filenames[1]
        timescale == get_timescale(c)
        \* float(seg_base[1:]) / seg_dur / timescale: seg_dur divides first
    IN  IF seg_name.time_marker /\ seg_dur = 0 THEN Raised("ZeroDivisionError")
        ELSE IF seg_name.time_marker /\ timescale = None THEN Raised("TypeError")
        ELSE IF seg_name.time_marker /\ timescale[1] = 0
        THEN Raised("ZeroDivisionError")
        ELSE
        LET seg_nr == IF seg_name.time_marker
                      THEN RoundDiv(seg_name.stem, seg_dur * timescale[1])
                      ELSE seg_name.stem
        IN  IF seg_nr < seg_start_nr(c) THEN ErrorResponse("TooEarlySegmentNumber")
            ELSE IF Len(c.last_segment_numbers) > 0 /\ seg_nr > VeryLastSegment(c)
            THEN ErrorResponse("BeyondLastSegment")
            ELSE IF c.loop_duration = 0 THEN Raised("ZeroDivisionError")
            ELSE IF Len(c.initial_durations) = 0 THEN Raised("IndexError")
            ELSE IF seg_dur = 0 THEN Raised("ZeroDivisionError")
            ELSE Dispatch(c, MapSegment(c, seg_nr), seg_nr)

\* ------------------------------------------------------- availability
\* first_segment_ast without the special case of an offset of -1
first_segment_ast_always_offset(c) ==
    c.availability_start_time_in_s + c.vod_infos[1].seg_duration
    - c.availability_time_offset_in_s

first_segment_ast(c) ==
    IF c.availability_time_offset_in_s = -1
    THEN c.availability_start_time_in_s
    ELSE c.availability_start_time_in_s + c.vod_infos[1].seg_duration
         - c.availability_time_offset_in_s

\* int(ceil(60.0 / float(total_dur)))
NumLoop(total_dur) == (SECS_IN_MINUTE + total_dur - 1) \div total_dur

\* The up/down test of the loss schedule at now_mod_60
ServerDown(sched, now_mod_60) ==
    LET total_dur == sched.dur1 + sched.dur2
    IN  IF sched.a = "u" /\ sched.b = "d"
        THEN \E i \in 0..(NumLoop(total_dur) - 1) :
                i * total_dur + sched.dur1 < now_mod_60 /\ now_mod_60 <= (i + 1) * total_dur
        ELSE IF sched.a = "d" /\ sched.b = "u"
        THEN \E i \in 0..(NumLoop(total_dur) - 1) :
                i * total_dur < now_mod_60 /\ now_mod_60 <= i * total_dur + sched.dur1
        ELSE FALSE

\* The .m4s branch of parse_url
MediaBranch(c, t) ==
    IF t < first_segment_ast(c) THEN ErrorResponse("TooEarlyMedia")
    ELSE IF c.availability_end_time # None
            /\ t > c.availability_end_time[1] + EXTRA_TIME_AFTER_END_IN_S
    THEN ErrorResponse("TooLateMedia")
    ELSE LET r == process_media_segment(c)
         IN  IF r.type = "exception" THEN r
             ELSE IF Len(c.multi_url) = 1
             THEN IF c.multi_url[1].dur1 + c.multi_url[1].dur2 = 0
                  THEN Raised("ZeroDivisionError")
                  ELSE IF ServerDown(c.multi_url[1], t % SECS_IN_MINUTE)
                  THEN ErrorResponse("FaultInjected")
                  ELSE r
             ELSE r

\* The .m4s branch gets to time.sleep(.500): the request passed both time
\* checks and neither process_media_segment nor the loss schedule raised
reaches_sleep(c, t) ==
    /\ t >= first_segment_ast(c)
    /\ ~ (c.availability_end_time # None
          /\ t > c.availability_end_time[1] + EXTRA_TIME_AFTER_END_IN_S)
    /\ MediaBranch(c, t).type # "exception"

\* The .mp4 branch of parse_url
InitBranch(c, t) ==
    IF t < c.availability_start_time_in_s - c.init_seg_avail_offset
    THEN ErrorResponse("TooEarlyInit")
    ELSE process_init_segment(c)

\* parse_url: [cfg, response]
parse_url(c, t) ==
    LET s == sort_by_period(c, t)
    IN  IF s.raised THEN [cfg |-> s.cfg, response |-> Raised("ZeroDivisionError")]
        ELSE [cfg |-> s.cfg,
              response |->
                 IF c.ext = ".mpd" THEN generate_dynamic_mpd(s.cfg)
                 ELSE IF c.ext = ".mp4" THEN InitBranch(s.cfg, t)
                 ELSE IF c.ext = ".m4s" THEN MediaBranch(s.cfg, t)
                 ELSE [type |-> "string", ok |-> FALSE, pl |-> "Unknown file extension",
                       periods |-> << >>, calls |-> << >>]]

\* ------------------------------------------------- the resolved configuration
\* One VodAsset of k segments of d seconds: wrap_seconds is the length of the loop
Asset(k, d, f) ==
    [wrap_seconds |-> k * d, seg_duration |-> d, first_segment_in_loop |-> f,
     total_duration |-> k * d * VideoTimescale, timescale |-> VideoTimescale]

\* The assets of the catalogs: loops of 1, MaxSegsInLoop and 2 segments, segment
\* durations of 2 s and 1 s, loops that start at local segment 1 and 0
Short == Asset(1, 2, 1)

Long == Asset(MaxSegsInLoop, 2, 0)

Fine == Asset(2, 1, 0)

Assets == {Short, Long, Fine}

RECURSIVE SeqsOf(_, _)
\* the sequences of length n over S
SeqsOf(S, n) ==
    IF n = 0 THEN {<< >>}
    ELSE {<<x>> \o s : x \in S, s \in SeqsOf(S, n - 1)}

Catalogs == UNION {SeqsOf(Assets, n) : n \in 1..MaxAssets}

Rep(i) == [id |-> i, timescale |-> i * VideoTimescale]

Reps(n) == [i \in 1..n |-> Rep(i)]

Name(n) == [time_marker |-> FALSE, stem |-> n]

\* The configuration as ConfigProcessor.getconfig delivers it to parse_url:
\* loop_duration is the sum of the wrap durations, initial_durations lists them.
getconfig(ext, infos, names, ast, start_nr, lasts, reps, multi_url, ato, aet) ==
    [ext |-> ext,
     vod_infos |-> infos,
     filenames |-> names,
     start_from_ast |-> 0,
     availability_start_time_in_s |-> ast,
     start_nr |-> start_nr,
     last_segment_numbers |-> lasts,
     initial_durations |-> [i \in 1..Len(infos) |-> infos[i].wrap_seconds],
     loop_duration |-> SumWrap(infos),
     reps |-> reps,
     repId |-> 1,
     multi_url |-> multi_url,
     availability_time_offset_in_s |-> ato,
     availability_end_time |-> aet,
     init_seg_avail_offset |-> 0]

SameName(infos, n) == [i \in 1..Len(infos) |-> n]

\* Manifest requests: every catalog, every clock sample, the start numbers
MpdRequests ==
    {[now |-> t,
      cfg |-> getconfig(".mpd", infos, [i \in 1..Len(infos) |-> Name(i)], ast, snr,
                        << >>, Reps(1), << >>, -1, None)] :
        t \in 0..MaxNow, infos \in Catalogs, ast \in {0, 3}, snr \in {-1, 0, 1}}

\* Catalogs of one, two and three assets
FixedCatalogs == {<<Long>>, <<Short, Long>>, <<Long, Short>>, <<Short, Short, Long>>}

\* Media requests over the catalogs: which asset is first depends on now
MappingRequests ==
    {[now |-> t,
      cfg |-> getconfig(".m4s", infos, SameName(infos, Name(n)), 0, 0,
                        << >>, Reps(1), << >>, -1, None)] :
        t \in 0..MaxNow, infos \in Catalogs \cup FixedCatalogs, n \in 0..MaxSegNr}

\* Terminal lists, in and out of order, with maxima below, at and above the
\* start numbers
TerminalLists == {<< >>, <<0>>, <<1>>, <<1, 0>>, <<4>>, <<3, 7>>, <<7, 3>>, <<9, 2, 5>>}

\* Media requests at the segment-number boundaries
BoundaryRequests ==
    {[now |-> t,
      cfg |-> getconfig(".m4s", infos, SameName(infos, Name(n)), 0, snr,
                        lasts, Reps(1), << >>, -1, None)] :
        t \in {0, 7, MaxNow}, infos \in {<<Long>>, <<Fine>>},
        n \in 0..MaxSegNr, snr \in {-1, 0, 1, 2}, lasts \in TerminalLists}

\* Media requests at the availability window
WindowRequests ==
    {[now |-> t,
      cfg |-> getconfig(".m4s", <<Long>>, <<Name(n)>>, ast, 0,
                        << >>, Reps(1), << >>, ato, aet)] :
        t \in (0..MaxNow) \cup {40, 70}, n \in 0..MaxSegNr, ast \in {0, 3},
        ato \in {-1, 0, 1}, aet \in {None, <<5>>}}

\* Scenario A: segDuration 4, availabilityTimeOffset -1, now 40
ScenarioARequests ==
    {[now |-> 40,
      cfg |-> getconfig(".m4s", <<Asset(3, 4, 0)>>, <<Name(n)>>, 0, 0,
                        << >>, Reps(1), << >>, -1, None)] :
        n \in 0..MaxSegNr}

\* Segment requests (init and media, numbered and time-named) with 0..MaxReps reps
RepsRequests ==
    {[now |-> t,
      cfg |-> getconfig(ext, infos, SameName(infos, name), 0, 0,
                        << >>, Reps(k), << >>, -1, None)] :
        t \in {0, 5}, ext \in {".mp4", ".m4s"}, infos \in {<<Long>>, <<Short, Long>>},
        name \in {Name(0), Name(2), [time_marker |-> TRUE, stem |-> 10]},
        k \in 0..MaxReps}
    \cup
    {[now |-> t,
      cfg |-> getconfig(".mp4", <<Long>>, <<Name(0)>>, 3, 0,
                        << >>, Reps(1), << >>, -1, None)] : t \in 0..5}

\* Loss schedules: [a, dur1, b, dur2] is the BaseURL part "<a><dur1>_<b><dur2>"
Schedules ==
    {[a |-> "u", dur1 |-> 10, b |-> "d", dur2 |-> 5],
     [a |-> "u", dur1 |-> 2, b |-> "d", dur2 |-> 3],
     [a |-> "u", dur1 |-> 40, b |-> "d", dur2 |-> 30],
     [a |-> "d", dur1 |-> 3, b |-> "u", dur2 |-> 4],
     [a |-> "u", dur1 |-> 3, b |-> "u", dur2 |-> 4]}

FaultRequests ==
    {[now |-> t,
      cfg |-> getconfig(".m4s", <<Long>>, <<Name(n)>>, 0, 1,
                        lasts, Reps(1), multi, -1, None)] :
        t \in 0..MaxPhaseNow, n \in {0, 2}, lasts \in {<< >>},
        multi \in {<<s>> : s \in Schedules} \cup {<< >>}}

\* Catalogs whose wrap durations sum to 0
ZeroCatalogs == {<<Asset(0, 2, 0)>>, <<Asset(0, 1, 0), Asset(0, 2, 0)>>}

ZeroRequests ==
    {[now |-> t,
      cfg |-> getconfig(ext, infos, SameName(infos, Name(0)), 0, 0,
                        << >>, Reps(1), << >>, -1, None)] :
        t \in {0, 5}, ext \in {".mpd", ".mp4", ".m4s", ".txt"}, infos \in ZeroCatalogs}

\* Assets without a timescale or without a segment duration
NoScale == [Long EXCEPT !.timescale = 0]

NoDur == [Long EXCEPT !.seg_duration = 0]

DegenerateCatalogs == UNION {SeqsOf({Long, NoScale, NoDur}, n) : n \in 1..MaxAssets}

\* One or two equal names, numbered or time-named
NameLists ==
    UNION {{<<nm>>, <<nm, nm>>} :
              nm \in {Name(0), Name(2), [time_marker |-> TRUE, stem |-> 10]}}

\* Manifest and media requests over them, with a name for every asset or for
\* fewer, with and without a representation
DegenerateRequests ==
    {[now |-> t,
      cfg |-> getconfig(ext, q[1], q[2], 0, 0, << >>, Reps(k), << >>, -1, None)] :
        t \in {0, 5, 9}, ext \in {".mpd", ".m4s"},
        q \in {x \in DegenerateCatalogs \X NameLists : Len(x[1]) >= Len(x[2])},
        k \in 0..1}

UnknownRequests ==
    {[now |-> t,
      cfg |-> getconfig(".txt", infos, SameName(infos, Name(0)), 0, 0,
                        << >>, Reps(1), << >>, -1, None)] :
        t \in 0..MaxNow, infos \in FixedCatalogs}

Requests ==
    MpdRequests \cup MappingRequests \cup BoundaryRequests \cup WindowRequests
    \cup ScenarioARequests \cup RepsRequests \cup FaultRequests \cup ZeroRequests
    \cup DegenerateRequests \cup UnknownRequests

\* ------------------------------------------------------------ the machine
Init ==
    /\ pc = "request"
    /\ \E rq \in Requests :
          /\ now = rq.now
          /\ resolved = rq.cfg
          /\ cfg = rq.cfg
    /\ response = NoResponse

\* handle_request with a manifest name
HandleManifest ==
    /\ pc = "request"
    /\ cfg.ext = ".mpd"
    /\ LET r == parse_url(cfg, now)
       IN  /\ cfg' = r.cfg
           /\ response' = r.response
    /\ pc' = "done"
    /\ UNCHANGED <<now, resolved>>

\* handle_request with an init segment name
HandleInitSegment ==
    /\ pc = "request"
    /\ cfg.ext = ".mp4"
    /\ LET r == parse_url(cfg, now)
       IN  /\ cfg' = r.cfg
           /\ response' = r.response
    /\ pc' = "done"
    /\ UNCHANGED <<now, resolved>>

\* handle_request with a media segment name, up to the return or, when the
\* response was computed past both time checks, up to time.sleep(.500);
\* response is then parse_url's local variable, not yet returned
HandleMediaSegment ==
    /\ pc = "request"
    /\ cfg.ext = ".m4s"
    /\ LET r == parse_url(cfg, now)
       IN  /\ cfg' = r.cfg
           /\ response' = r.response
           /\ pc' = IF r.response.type # "exception" /\ reaches_sleep(r.cfg, now)
                    THEN "sleeping" ELSE "done"
    /\ UNCHANGED <<now, resolved>>

\* time.sleep(.500) is over: parse_url returns the response it computed
ReturnAfterSleep ==
    /\ pc = "sleeping"
    /\ pc' = "done"
    /\ UNCHANGED <<now, resolved, cfg, response>>

\* handle_request with any other name
HandleUnknownExtension ==
    /\ pc = "request"
    /\ cfg.ext \notin {".mpd", ".mp4", ".m4s"}
    /\ LET r == parse_url(cfg, now)
       IN  /\ cfg' = r.cfg
           /\ response' = r.response
    /\ pc' = "done"
    /\ UNCHANGED <<now, resolved>>

Next ==
    \/ HandleManifest
    \/ HandleInitSegment
    \/ HandleMediaSegment
    \/ ReturnAfterSleep
    \/ HandleUnknownExtension

Spec == Init /\ [][Next]_vars

\* ================================================================ properties
Done == pc = "done"

\* every asset of the resolved catalog has a positive wrap duration
PositiveWraps ==
    /\ Len(resolved.vod_infos) >= 1
    /\ \A i \in 1..Len(resolved.vod_infos) : resolved.vod_infos[i].wrap_seconds > 0

\* the media request got past sort_by_period and the availability window
ReachesMapper ==
    /\ Done
    /\ cfg.ext = ".m4s"
    /\ PositiveWraps
    /\ now >= first_segment_ast(cfg)
    /\ ~ (cfg.availability_end_time # None
          /\ now > cfg.availability_end_time[1] + EXTRA_TIME_AFTER_END_IN_S)
    /\ ~ cfg.filenames[1].time_marker

\* the number the request asks for (a numbered name)
RequestedSegNr == cfg.filenames[1].stem

MaxOf(s) == CHOOSE m \in {s[i] : i \in 1..Len(s)} : \A j \in 1..Len(s) : s[j] <= m

\* C1 as stated: after sort_by_period the asset sequence is non-empty, has as
\* many assets as the catalog and the same sum of wrap durations.
C1_RotationConservation ==
    (Done /\ PositiveWraps) =>
        /\ Len(cfg.vod_infos) >= 1
        /\ Len(cfg.vod_infos) = Len(resolved.vod_infos)
        /\ SumWrap(cfg.vod_infos) = SumWrap(resolved.vod_infos)

\* C2 as stated: every period start number of the manifest is accepted by
\* process_media_segment at the same now, and the mapper places it at the
\* period's start.
C2_ManifestSegmentAgreement ==
    (Done /\ cfg.ext = ".mpd" /\ response.type = "data") =>
        \A i \in 1..Len(response.periods) :
            LET n == response.periods[i].startNumber
                c == [cfg EXCEPT !.ext = ".m4s",
                                 !.filenames = [k \in 1..Len(@) |-> Name(n)]]
                r == process_media_segment(c)
                m == MapSegment(c, n)
            IN  /\ r.type = "data"
                /\ m.offset_at_loop_start + m.seg_nr_in_loop * c.vod_infos[1].seg_duration
                     = response.periods[i].start_s

\* C3 as stated: with availabilityTimeOffset -1 a media segment is served only
\* once its interval is complete.
C3_ServedOnlyWhenComplete ==
    (ReachesMapper /\ cfg.availability_time_offset_in_s = -1 /\ response.type = "data") =>
        cfg.availability_start_time_in_s
          + (RequestedSegNr - cfg.start_nr + 1) * cfg.vod_infos[1].seg_duration <= now

\* C3 amended: with availabilityTimeOffset -1 a media request is TooEarlyMedia
\* exactly when now is before availabilityStartTime, whatever the segment
\* number; the interval of the segment is not checked, so with
\* availabilityStartTime 0, segDuration 4, startNumber 0 and now 40 segment 10
\* is served as segments 0..9 are.
C3_TooEarlyOnlyBeforeAst ==
    (Done /\ cfg.ext = ".m4s" /\ PositiveWraps /\ cfg.availability_time_offset_in_s = -1) =>
        /\ (response = ErrorResponse("TooEarlyMedia"))
              <=> (now < cfg.availability_start_time_in_s)
        /\ (/\ now = 40 /\ cfg.availability_start_time_in_s = 0 /\ cfg.start_nr = 0
            /\ cfg.vod_infos[1].seg_duration = 4 /\ Len(cfg.reps) = 1
            /\ cfg.multi_url = << >> /\ cfg.availability_end_time = None
            /\ ~ cfg.filenames[1].time_marker /\ RequestedSegNr \in 0..10)
              => response.type = "data"

\* C3 witness: scenario A, segment 10 at now 40 is served
C3_Witness ==
    /\ ReachesMapper
    /\ cfg.availability_time_offset_in_s = -1
    /\ now = 40 /\ cfg.availability_start_time_in_s = 0 /\ cfg.start_nr = 0
    /\ cfg.vod_infos[1].seg_duration = 4
    /\ RequestedSegNr = 10
    /\ response.type = "data"

\* C4: for a single-asset catalog of wrap duration W and segment duration D,
\* the mapping of n + W/D has the local segment number of the mapping of n and
\* an offset_at_loop_start greater by W.
C4_LoopPeriodicity ==
    (/\ ReachesMapper /\ Len(resolved.vod_infos) = 1 /\ response.type = "data"
     /\ cfg.loop_duration = resolved.vod_infos[1].wrap_seconds
     /\ cfg.loop_duration % cfg.vod_infos[1].seg_duration = 0) =>
        LET W == cfg.loop_duration
            D == cfg.vod_infos[1].seg_duration
            call == response.calls[1]
            m == MapSegment(cfg, call.seg_nr + W \div D)
        IN  /\ call.seg_nr = RequestedSegNr
            /\ m.vod_nr = call.vod_nr
            /\ m.offset_at_loop_start = call.offset_at_loop_start + W

\* C4 witness: a segment of a later loop, not the first of the loop, was mapped
C4_Witness ==
    /\ ReachesMapper /\ Len(resolved.vod_infos) = 1 /\ response.type = "data"
    /\ response.calls[1].offset_at_loop_start > 0
    /\ response.calls[1].vod_nr > cfg.vod_infos[1].first_segment_in_loop

\* C5 as stated: a number below the effective start number is always
\* TooEarlySegmentNumber, a number above the maximum of a configured terminal
\* list is always BeyondLastSegment, and no segment bytes are produced.
C5_SegmentNumberBoundaries ==
    ReachesMapper =>
        LET eff == IF cfg.start_nr = -1 THEN 1 ELSE cfg.start_nr
            r == process_media_segment(cfg)
        IN  /\ RequestedSegNr < eff =>
                 /\ r = ErrorResponse("TooEarlySegmentNumber")
                 /\ response.type = "error" /\ response.calls = << >>
                 /\ cfg.multi_url = << >> => response = r
            /\ (cfg.last_segment_numbers # << >>
                /\ RequestedSegNr > MaxOf(cfg.last_segment_numbers)) =>
                 /\ r = ErrorResponse("BeyondLastSegment")
                 /\ response.type = "error" /\ response.calls = << >>
                 /\ cfg.multi_url = << >> => response = r

\* C5 amended: a number below the effective start number is always
\* TooEarlySegmentNumber, also when it is above the maximum of the terminal
\* list; a number not below the effective start number and above the maximum
\* of a configured terminal list is BeyondLastSegment; no segment bytes are
\* produced in either case.
C5_BoundariesInCheckOrder ==
    ReachesMapper =>
        LET eff == IF cfg.start_nr = -1 THEN 1 ELSE cfg.start_nr
            r == process_media_segment(cfg)
        IN  /\ RequestedSegNr < eff =>
                 /\ r = ErrorResponse("TooEarlySegmentNumber")
                 /\ response.type = "error" /\ response.calls = << >>
                 /\ cfg.multi_url = << >> => response = r
            /\ (cfg.last_segment_numbers # << >>
                /\ RequestedSegNr >= eff
                /\ RequestedSegNr > MaxOf(cfg.last_segment_numbers)) =>
                 /\ r = ErrorResponse("BeyondLastSegment")
                 /\ response.type = "error" /\ response.calls = << >>
                 /\ cfg.multi_url = << >> => response = r

\* C5 witness: a number between the maximum of the terminal list and the
\* effective start number was refused as too early
C5_Witness ==
    /\ ReachesMapper
    /\ cfg.last_segment_numbers = <<1, 0>> /\ cfg.start_nr = -1 /\ RequestedSegNr = 0
    /\ response = ErrorResponse("TooEarlySegmentNumber")

\* a number above the maximum of an unordered terminal list, not below the
\* start number, was refused as beyond the last
BeyondUnorderedList ==
    /\ ReachesMapper
    /\ cfg.last_segment_numbers = <<7, 3>> /\ RequestedSegNr = 8
    /\ response = ErrorResponse("BeyondLastSegment")

\* C6 as stated: with a schedule "uA_dB" an otherwise valid media request is
\* FaultInjected exactly when (now mod 60) mod (A+B) >= A.
C6_FaultWindow ==
    (/\ ReachesMapper
     /\ Len(cfg.multi_url) = 1
     /\ process_media_segment(cfg).type = "data") =>
        LET s == cfg.multi_url[1]
            phase == now % SECS_IN_MINUTE
        IN  (s.a = "u" /\ s.b = "d") =>
               /\ (response = ErrorResponse("FaultInjected"))
                     <=> ((phase % (s.dur1 + s.dur2)) >= s.dur1)
               /\ response # ErrorResponse("FaultInjected")
                     => response = process_media_segment(cfg)

\* C7 as stated: start_from_ast after sort_by_period does not decrease as now
\* grows.
C7_MonotonicStart ==
    (Done /\ PositiveWraps /\ now >= resolved.availability_start_time_in_s) =>
        \A t2 \in now..MaxNow :
            sort_by_period(resolved, t2).cfg.start_from_ast >= cfg.start_from_ast

\* C8 as stated: a segment request with a representation count other than 1
\* or 2 is InvalidRepresentationCount and calls no byte rewriter.
C8_InvalidRepresentationCount ==
    (/\ Done /\ PositiveWraps
     /\ cfg.ext \in {".mp4", ".m4s"}
     /\ Len(cfg.reps) \notin {1, 2}
     /\ response.pl \notin {"TooEarlyInit", "TooEarlyMedia", "TooLateMedia",
                            "TooEarlySegmentNumber", "BeyondLastSegment",
                            "FaultInjected"}
     /\ ~ cfg.filenames[1].time_marker) =>
        /\ response = ErrorResponse("InvalidRepresentationCount")
        /\ response.calls = << >>

\* C9 as stated: a catalog whose wrap durations sum to 0 ends in an explicit
\* error result.
C9_ZeroTotalIsReported ==
    (Done /\ SumWrap(resolved.vod_infos) = 0) =>
        /\ response.type = "error"
        /\ response.ok = FALSE

\* C10 as stated: the local segment number lies in the loop of the asset it is
\* read from.
C10_LocalSegmentRange ==
    (ReachesMapper /\ response.type = "data") =>
        \A k \in 1..Len(response.calls) :
            LET a == cfg.vod_infos[1]
                vod_nr == response.calls[k].vod_nr
            IN  /\ a.first_segment_in_loop <= vod_nr
                /\ vod_nr < a.first_segment_in_loop + a.wrap_seconds \div a.seg_duration

\* C11 as stated: for a catalog of one asset sort_by_period leaves the asset
\* sequence and the filename sequence unchanged with one element, and adds
\* loops * total to start_from_ast, where loops = (now - AST) div total.
C11_SingleAssetUnchanged ==
    (Done /\ PositiveWraps /\ Len(resolved.vod_infos) = 1) =>
        LET total == resolved.vod_infos[1].wrap_seconds
            loops == (now - resolved.availability_start_time_in_s) \div total
        IN  /\ cfg.vod_infos = resolved.vod_infos
            /\ cfg.filenames = resolved.filenames
            /\ Len(cfg.vod_infos) = 1
            /\ cfg.start_from_ast = resolved.start_from_ast + loops * total

====
